---- MODULE Spec2Model ----
(***************************************************************************)
(* Model of src/src/polyfills.ts: the crypto.subtle polyfills for React    *)
(* Native (importKey, encrypt, decrypt) and their installation.            *)
(*                                                                         *)
(* JavaScript strings are sequences of one-character strings, so that      *)
(* toLowerCase, includes, the hex and base64 conversions and the template  *)
(* literal of the mode token are computed as the code computes them.       *)
(* ArrayBuffers live in a heap (buffer id -> bytes); a BufferSource is a   *)
(* reference to a heap buffer, either the buffer itself or a typed view    *)
(* with a byte offset and a length.                                        *)
(***************************************************************************)
EXTENDS Integers, Sequences, FiniteSets, TLC

VARIABLES
    global,      \* the host global object: defined, crypto, subtle, TextDecoder
    nativeAes,   \* NativeModules.Aes is present
    subtle,      \* the slots importKey, encrypt, decrypt of crypto.subtle
    heap,        \* the caller's ArrayBuffers: buffer id -> bytes
    mutations,   \* number of writes the caller made into its buffers
    key,         \* the key handle the caller holds (result of its last importKey)
    selected,    \* history: what the most recent install that returned selected
    call         \* the most recent call of the installed surface and its outcome

vars == <<global, nativeAes, subtle, heap, mutations, key, selected, call>>

----------------------------------------------------------------------------
(* Bounds *)

MaxMutations == 1

----------------------------------------------------------------------------
(* Strings *)

UpperCase == <<"A","B","C","D","E","F","G","H","I","J","K","L","M",
               "N","O","P","Q","R","S","T","U","V","W","X","Y","Z">>
LowerCase == <<"a","b","c","d","e","f","g","h","i","j","k","l","m",
               "n","o","p","q","r","s","t","u","v","w","x","y","z">>
Digits    == <<"0","1","2","3","4","5","6","7","8","9">>
HexDigits == <<"0","1","2","3","4","5","6","7","8","9","a","b","c","d","e","f">>
Base64Chars == UpperCase \o LowerCase \o Digits \o <<"+","/">>

toLowerChar(c) ==
    IF \E i \in 1..26 : UpperCase[i] = c
    THEN LowerCase[CHOOSE i \in 1..26 : UpperCase[i] = c]
    ELSE c

\* String.prototype.toLowerCase
toLowerCase(s) == [i \in 1..Len(s) |-> toLowerChar(s[i])]

\* String.prototype.includes
includes(s, t) == \E i \in 0..(Len(s) - Len(t)) : SubSeq(s, i + 1, i + Len(t)) = t

RECURSIVE numberToString(_)
\* the decimal rendering of a number inside a template literal
numberToString(n) ==
    IF n < 10 THEN <<Digits[n + 1]>>
    ELSE numberToString(n \div 10) \o <<Digits[(n % 10) + 1]>>

RECURSIVE join(_)
\* Array.prototype.join('') of a sequence of strings
join(parts) == IF parts = <<>> THEN <<>> ELSE Head(parts) \o join(Tail(parts))

\* byte.toString(16).padStart(2, '0')
byteToHex(byte) ==
    LET digits == IF byte < 16 THEN <<HexDigits[byte + 1]>>
                  ELSE <<HexDigits[(byte \div 16) + 1], HexDigits[(byte % 16) + 1]>>
    IN  IF Len(digits) < 2 THEN <<"0">> \o digits ELSE digits

\* btoa: a binary string (sequence of char codes 0..255) to base64
btoa(binary) ==
    LET n      == Len(binary)
        groups == (n + 2) \div 3
        at(i)  == IF i <= n THEN binary[i] ELSE 0
        quad(g) ==
            LET b0 == at(3 * g + 1)
                b1 == at(3 * g + 2)
                b2 == at(3 * g + 3)
                c0 == Base64Chars[(b0 \div 4) + 1]
                c1 == Base64Chars[((b0 % 4) * 16 + (b1 \div 16)) + 1]
                c2 == IF 3 * g + 2 <= n
                      THEN Base64Chars[((b1 % 16) * 4 + (b2 \div 64)) + 1] ELSE "="
                c3 == IF 3 * g + 3 <= n THEN Base64Chars[(b2 % 64) + 1] ELSE "="
            IN  <<c0, c1, c2, c3>>
    IN  join([g \in 1..groups |-> quad(g - 1)])

base64Index(c) == (CHOOSE i \in 1..64 : Base64Chars[i] = c) - 1

\* atob: base64 to a binary string (sequence of char codes)
atob(base64) ==
    LET groups == Len(base64) \div 4
        triple(g) ==
            LET q  == SubSeq(base64, 4 * g + 1, 4 * g + 4)
                v0 == base64Index(q[1])
                v1 == base64Index(q[2])
                v2 == IF q[3] = "=" THEN 0 ELSE base64Index(q[3])
                v3 == IF q[4] = "=" THEN 0 ELSE base64Index(q[4])
                c0 == v0 * 4 + (v1 \div 16)
                c1 == (v1 % 16) * 16 + (v2 \div 4)
                c2 == (v2 % 4) * 64 + v3
            IN  IF q[3] = "=" THEN <<c0>>
                ELSE IF q[4] = "=" THEN <<c0, c1>>
                ELSE <<c0, c1, c2>>
    IN  join([g \in 1..groups |-> triple(g - 1)])

----------------------------------------------------------------------------
(* Values *)

Undefined == [kind |-> "undefined"]

\* an ArrayBuffer object of the caller
ArrayBufferRef(b) == [kind |-> "ArrayBuffer", buf |-> b]

\* a typed view (Uint8Array) over bytes byteOffset+1 .. byteOffset+length of buffer b
ViewRef(b, byteOffset, length) ==
    [kind |-> "view", buf |-> b, byteOffset |-> byteOffset, length |-> length]

\* new Uint8Array(x): for an ArrayBuffer, all its bytes
Uint8Array(buffer) == heap[buffer.buf]

\* the bytes a BufferSource denotes: the whole buffer, or the view's range
logicalBytes(source) ==
    IF source.kind = "view"
    THEN SubSeq(heap[source.buf], source.byteOffset + 1, source.byteOffset + source.length)
    ELSE heap[source.buf]

----------------------------------------------------------------------------
(* Errors and outcomes *)

\* new Error(message): kind classifies the message, detail is its interpolated part
Error(kind, message, detail) == [kind |-> kind, message |-> message, detail |-> detail]

NoError == Error("none", "", <<>>)

\* a throw inside an async function: the returned promise is rejected
Rejected(error) == [status |-> "rejected", error |-> error, value |-> Undefined,
                    backend |-> <<>>, custom |-> <<>>]

\* a throw inside a plain function, or a call of something that is no function
Threw(error) == [status |-> "threw", error |-> error, value |-> Undefined,
                 backend |-> <<>>, custom |-> <<>>]

\* a plain function returns
Returned == [status |-> "returned", error |-> NoError, value |-> Undefined,
             backend |-> <<>>, custom |-> <<>>]

Resolved(value) == [status |-> "resolved", error |-> NoError, value |-> value,
                    backend |-> <<>>, custom |-> <<>>]

\* suspended in the await of a native backend invocation
AwaitingBackend(invocation) == [status |-> "pending", error |-> NoError, value |-> Undefined,
                                backend |-> <<invocation>>, custom |-> <<>>]

\* the promise returned by the application's custom function, not yet settled
AwaitingCustom(invocation) == [status |-> "pending", error |-> NoError, value |-> Undefined,
                               backend |-> <<>>, custom |-> <<invocation>>]

----------------------------------------------------------------------------
(* Helpers of polyfills.ts *)

\* bufferToHex: note that a view is widened to its whole underlying buffer
bufferToHex(buffer) ==
    LET uint8Array == IF buffer.kind = "ArrayBuffer" THEN Uint8Array(buffer)
                      ELSE IF buffer.kind = "view" THEN Uint8Array(ArrayBufferRef(buffer.buf))
                      ELSE <<>>
    IN  join([i \in 1..Len(uint8Array) |-> byteToHex(uint8Array[i])])

\* base64ToBuffer: atob, then one byte per char code
base64ToBuffer(base64) ==
    LET binaryString == atob(base64)
    IN  [i \in 1..Len(binaryString) |-> binaryString[i]]

\* bufferToBase64: one char per byte, then btoa
bufferToBase64(buffer) ==
    LET uint8Array == IF buffer.kind = "ArrayBuffer" THEN Uint8Array(buffer)
                      ELSE IF buffer.kind = "view" THEN Uint8Array(ArrayBufferRef(buffer.buf))
                      ELSE <<>>
        binary == [i \in 1..Len(uint8Array) |-> uint8Array[i]]
    IN  btoa(binary)

\* class PolyfillCryptoKey: the handle stores the reference it is given
PolyfillCryptoKey(keyData) == [kind |-> "PolyfillCryptoKey", keyData |-> keyData]

\* key instanceof PolyfillCryptoKey
isPolyfillCryptoKey(k) == k.kind = "PolyfillCryptoKey"

\* a value is truthy unless it is undefined (buffers and views, even empty, are objects)
truthy(v) == v.kind # "undefined"

\* typeof algorithm === 'string' ? algorithm.toLowerCase() : algorithm.name.toLowerCase()
algorithmNameOf(algorithm) == toLowerCase(algorithm.name)

aes     == <<"a","e","s">>
aes_cbc == <<"a","e","s","-","c","b","c">>
raw     == <<"r","a","w">>

\* the template literal `aes-${keyLength}-cbc`
aesModeOf(keyLength) == <<"a","e","s","-">> \o numberToString(keyLength) \o <<"-","c","b","c">>

----------------------------------------------------------------------------
(* The polyfilled operations *)

\* importKey with its two checks in the other order
importKeyAlgorithmFirst(format, keyData, algorithm) ==
    LET algorithmName == algorithmNameOf(algorithm) IN
    IF ~includes(algorithmName, aes)
    THEN Rejected(Error("UnsupportedAlgorithm", "Only AES algorithms are supported",
                        algorithmName))
    ELSE IF format # raw
    THEN Rejected(Error("UnsupportedFormat", "Unsupported key format", format))
    ELSE LET keyBuffer == IF keyData.kind = "ArrayBuffer" THEN keyData
                          ELSE IF keyData.kind = "view" THEN ArrayBufferRef(keyData.buf)
                          ELSE keyData
         IN  Resolved(PolyfillCryptoKey(keyBuffer))

\* async function importKey(format, keyData, algorithm)
importKey(format, keyData, algorithm) ==
    IF format # raw
    THEN Rejected(Error("UnsupportedFormat", "Unsupported key format", format))
    ELSE LET algorithmName == algorithmNameOf(algorithm) IN
         IF ~includes(algorithmName, aes)
         THEN Rejected(Error("UnsupportedAlgorithm", "Only AES algorithms are supported",
                             algorithmName))
         ELSE LET keyBuffer == IF keyData.kind = "ArrayBuffer" THEN keyData
                               ELSE IF keyData.kind = "view" THEN ArrayBufferRef(keyData.buf)
                               ELSE keyData
              IN  Resolved(PolyfillCryptoKey(keyBuffer))

\* encrypt with the key check moved in front of the algorithm-name check
encryptKeyCheckFirst(algorithm, k, data) ==
    IF algorithm.kind = "string"
    THEN Rejected(Error("InvalidAlgorithmShape",
                        "Algorithm must be an object with name and iv properties", <<>>))
    ELSE LET algorithmName == toLowerCase(algorithm.name) IN
         IF ~isPolyfillCryptoKey(k)
         THEN Rejected(Error("InvalidKey", "Invalid CryptoKey", <<>>))
         ELSE IF ~includes(algorithmName, aes_cbc)
         THEN Rejected(Error("UnsupportedAlgorithm", "Only AES-CBC is supported", algorithmName))
         ELSE IF ~truthy(algorithm.iv)
         THEN Rejected(Error("MissingIV", "IV is required for AES-CBC encryption", <<>>))
         ELSE LET keyHex     == bufferToHex(k.keyData)
                  ivHex      == bufferToHex(algorithm.iv)
                  dataBase64 == bufferToBase64(data)
                  keyLength  == Len(Uint8Array(k.keyData)) * 8
                  aesMode    == aesModeOf(keyLength)
              IN  AwaitingBackend([fn |-> "Aes.encrypt", dataBase64 |-> dataBase64,
                                   keyHex |-> keyHex, ivHex |-> ivHex, aesMode |-> aesMode])

\* async function encrypt(algorithm, key, data), up to its await of the backend
encrypt(algorithm, k, data) ==
    IF algorithm.kind = "string"
    THEN Rejected(Error("InvalidAlgorithmShape",
                        "Algorithm must be an object with name and iv properties", <<>>))
    ELSE LET algorithmName == toLowerCase(algorithm.name) IN
         IF ~includes(algorithmName, aes_cbc)
         THEN Rejected(Error("UnsupportedAlgorithm", "Only AES-CBC is supported", algorithmName))
         ELSE IF ~isPolyfillCryptoKey(k)
         THEN Rejected(Error("InvalidKey", "Invalid CryptoKey", <<>>))
         ELSE IF ~truthy(algorithm.iv)
         THEN Rejected(Error("MissingIV", "IV is required for AES-CBC encryption", <<>>))
         ELSE LET keyHex     == bufferToHex(k.keyData)
                  ivHex      == bufferToHex(algorithm.iv)
                  dataBase64 == bufferToBase64(data)
                  keyLength  == Len(Uint8Array(k.keyData)) * 8
                  aesMode    == aesModeOf(keyLength)
              IN  AwaitingBackend([fn |-> "Aes.encrypt", dataBase64 |-> dataBase64,
                                   keyHex |-> keyHex, ivHex |-> ivHex, aesMode |-> aesMode])

\* async function decrypt(algorithm, key, data), up to its await of the backend
decrypt(algorithm, k, data) ==
    IF algorithm.kind = "string"
    THEN Rejected(Error("InvalidAlgorithmShape",
                        "Algorithm must be an object with name and iv properties", <<>>))
    ELSE LET algorithmName == toLowerCase(algorithm.name) IN
         IF ~includes(algorithmName, aes_cbc)
         THEN Rejected(Error("UnsupportedAlgorithm", "Only AES-CBC is supported", algorithmName))
         ELSE IF ~isPolyfillCryptoKey(k)
         THEN Rejected(Error("InvalidKey", "Invalid CryptoKey", <<>>))
         ELSE IF ~truthy(algorithm.iv)
         THEN Rejected(Error("MissingIV", "IV is required for AES-CBC decryption", <<>>))
         ELSE LET keyHex     == bufferToHex(k.keyData)
                  ivHex      == bufferToHex(algorithm.iv)
                  dataBase64 == bufferToBase64(data)
                  keyLength  == Len(Uint8Array(k.keyData)) * 8
                  aesMode    == aesModeOf(keyLength)
              IN  AwaitingBackend([fn |-> "Aes.decrypt", dataBase64 |-> dataBase64,
                                   keyHex |-> keyHex, ivHex |-> ivHex, aesMode |-> aesMode])

\* a resumption that swallows the backend's failure and resolves with no bytes
resumeSwallowingFailure(pending, settlement) ==
    IF settlement.kind = "fulfilled"
    THEN [pending EXCEPT !.status = "resolved",
                         !.value = [kind |-> "ArrayBuffer",
                                    bytes |-> base64ToBuffer(settlement.value)]]
    ELSE [pending EXCEPT !.status = "resolved",
                         !.value = [kind |-> "ArrayBuffer", bytes |-> <<>>]]

\* the rest of encrypt / decrypt: the await returns or throws
resumeAfterBackend(pending, settlement) ==
    IF settlement.kind = "fulfilled"
    THEN [pending EXCEPT !.status = "resolved",
                         !.value = [kind |-> "ArrayBuffer",
                                    bytes |-> base64ToBuffer(settlement.value)]]
    ELSE [pending EXCEPT !.status = "rejected", !.error = settlement.reason]

\* the arrow function inside buildCustomEncryption / buildCustomDecryption: it is
\* not async, so its throw is synchronous, and it returns the custom function's promise
customWrapper(fn, algorithm, k, data) ==
    IF ~isPolyfillCryptoKey(k)
    THEN Threw(Error("InvalidKey", "Invalid CryptoKey", <<>>))
    ELSE AwaitingCustom([fn |-> fn, algorithm |-> algorithm, key |-> k.keyData,
                         keyBytes |-> Uint8Array(k.keyData), data |-> data])

NativeFunction(name) == [kind |-> "function", impl |-> "native", fn |-> name]
CustomFunction(fn)   == [kind |-> "function", impl |-> "custom", fn |-> fn]
HostFunction         == [kind |-> "function", impl |-> "host", fn |-> "host"]
PromiseOf(value)     == [kind |-> "promise", value |-> value]

\* async function buildCustomEncryption(encryptionFunction): being async, it returns
\* a promise of the wrapping function, not the function
buildCustomEncryption(encryptionFunction) == PromiseOf(CustomFunction(encryptionFunction))

\* async function buildCustomDecryption(decryptionFunction)
buildCustomDecryption(decryptionFunction) == PromiseOf(CustomFunction(decryptionFunction))

\* applying a value found in a slot of crypto.subtle to (algorithm, key, data)
apply(target, algorithm, k, data) ==
    IF target.kind # "function"
    THEN Threw(Error("TypeError", "is not a function", <<>>))
    ELSE IF target.impl = "native"
    THEN IF target.fn = "encrypt" THEN encrypt(algorithm, k, data)
                                  ELSE decrypt(algorithm, k, data)
    ELSE customWrapper(target.fn, algorithm, k, data)

----------------------------------------------------------------------------
(* The inputs the callers draw from *)

AES_CBC == <<"A","E","S","-","C","B","C">>
AES_GCM == <<"A","E","S","-","G","C","M">>
RSA     == <<"R","S","A">>
pkcs8   == <<"p","k","c","s","8">>

Formats        == {raw, pkcs8}

StringAlgorithm(name)     == [kind |-> "string", name |-> name]
ObjectAlgorithm(name, iv) == [kind |-> "object", name |-> name, iv |-> iv]

\* the caller's buffers: three keys, an IV, an empty buffer and a payload
InitialHeap ==
    [b \in {"key16", "key24", "key32", "iv", "empty", "data"} |->
        CASE b = "key16" -> [i \in 1..16 |-> i]
          [] b = "key24" -> [i \in 1..24 |-> 2 * i]
          [] b = "key32" -> [i \in 1..32 |-> 255 - i]
          [] b = "iv"    -> [i \in 1..16 |-> 16 * i - 1]
          [] b = "empty" -> <<>>
          [] b = "data"  -> <<72, 105>>]

\* key data: flat buffers, a view of a whole buffer, views of a sub-range
KeyDataInputs ==
    { ArrayBufferRef("key16"), ArrayBufferRef("key24"), ArrayBufferRef("key32"),
      ViewRef("key32", 0, 32), ViewRef("key32", 16, 16) }

\* iv: missing, an empty buffer, a 16-byte buffer
IvInputs == { Undefined, ArrayBufferRef("empty"), ArrayBufferRef("iv") }

ImportAlgorithms ==
    { StringAlgorithm(AES_CBC), StringAlgorithm(RSA), ObjectAlgorithm(AES_GCM, Undefined),
      ObjectAlgorithm(RSA, Undefined) }

CallAlgorithms ==
    {StringAlgorithm(AES_CBC)}
    \cup {ObjectAlgorithm(AES_CBC, iv) : iv \in IvInputs}
    \cup {ObjectAlgorithm(AES_GCM, iv) : iv \in {Undefined, ArrayBufferRef("iv")}}

\* the custom wrapper does not look into the algorithm
UnwrappedAlgorithms == { StringAlgorithm(AES_CBC), ObjectAlgorithm(AES_CBC, ArrayBufferRef("iv")) }

\* things passed as key that importKey did not produce
ForgedKeys == { ArrayBufferRef("key16"), [kind |-> "object", keyData |-> ArrayBufferRef("key16")] }

DataInputs == { ArrayBufferRef("data") }

AppFunction(name) == [kind |-> "function", impl |-> "app", fn |-> name]

InstallOptions ==
    [encryptionFunction : {Undefined, AppFunction("E1"), AppFunction("E2")},
     decryptionFunction : {Undefined, AppFunction("D1")}]

\* what the native backend may answer
BackendSettlements ==
    { [kind |-> "fulfilled", value |-> <<"S","G","k","=">>],
      [kind |-> "fulfilled", value |-> <<"A","A","E","C","/","w","=","=">>],
      [kind |-> "rejected", reason |-> Error("BackendFailure", "bad decrypt", <<>>)] }

\* what the application's custom function may answer
CustomSettlements ==
    { [kind |-> "fulfilled", value |-> [kind |-> "ArrayBuffer", bytes |-> <<1, 2, 3>>]],
      [kind |-> "rejected", reason |-> Error("BackendFailure", "custom failure", <<>>)] }

----------------------------------------------------------------------------
(* State *)

NoCall == [op |-> "none", args |-> Undefined, target |-> Undefined, imported |-> Undefined,
           settlement |-> Undefined,
           status |-> "none", error |-> NoError, value |-> Undefined,
           backend |-> <<>>, custom |-> <<>>]

\* the record of a call: what was called with what, and the outcome so far
Call(op, args, target, imported, outcome) ==
    [op |-> op, args |-> args, target |-> target, imported |-> imported,
     settlement |-> Undefined,
     status |-> outcome.status, error |-> outcome.error, value |-> outcome.value,
     backend |-> outcome.backend, custom |-> outcome.custom]

Init ==
    /\ global \in { g \in [defined : BOOLEAN, crypto : BOOLEAN, subtle : BOOLEAN,
                           TextDecoder : {"absent", "host"}] :
                        /\ g.subtle => g.crypto
                        /\ g.crypto => g.defined
                        /\ (g.TextDecoder = "host") => g.defined }
    /\ nativeAes \in BOOLEAN
    /\ subtle = IF global.subtle
                THEN [importKey |-> HostFunction, encrypt |-> HostFunction,
                      decrypt |-> HostFunction]
                ELSE [importKey |-> Undefined, encrypt |-> Undefined, decrypt |-> Undefined]
    /\ heap = InitialHeap
    /\ mutations = 0
    /\ key = Undefined
    /\ selected = Undefined
    /\ call = NoCall

----------------------------------------------------------------------------
(* install *)

\* selection without the both-or-neither check: one function alone falls
\* through to the native branch
selectionWithoutPairCheck(options) ==
    IF truthy(options.encryptionFunction) /\ truthy(options.decryptionFunction)
    THEN "custom"
    ELSE IF nativeAes THEN "native"
    ELSE "MissingDependency"

\* which branch of the selection install takes
selection(options) ==
    IF truthy(options.encryptionFunction) /\ truthy(options.decryptionFunction)
    THEN "custom"
    ELSE IF truthy(options.encryptionFunction) \/ truthy(options.decryptionFunction)
    THEN "ConfigurationError"
    ELSE IF nativeAes THEN "native"
    ELSE "MissingDependency"

\* install that binds encrypt / decrypt before it validates the options, and
\* overwrites TextDecoder: a throwing call has then already replaced the slots
installBindingBeforeValidation(options) ==
    IF ~global.defined
    THEN /\ call' = Call("install", options, Undefined, Undefined,
                         Threw(Error("EnvironmentError", "global is not defined", <<>>)))
         /\ UNCHANGED <<global, nativeAes, subtle, heap, mutations, key, selected>>
    ELSE LET chosen == selection(options)
             bound  == [importKey |-> NativeFunction("importKey"),
                        encrypt |-> IF truthy(options.encryptionFunction)
                                    THEN buildCustomEncryption(options.encryptionFunction)
                                    ELSE NativeFunction("encrypt"),
                        decrypt |-> IF truthy(options.decryptionFunction)
                                    THEN buildCustomDecryption(options.decryptionFunction)
                                    ELSE NativeFunction("decrypt")]
         IN
         /\ global' = [global EXCEPT !.crypto = TRUE, !.subtle = TRUE,
                                     !.TextDecoder = "polyfill"]
         /\ subtle' = bound
         /\ CASE chosen = "custom" ->
                   /\ selected' = [kind |-> "custom", options |-> options]
                   /\ call' = Call("install", options, Undefined, Undefined, Returned)
              [] chosen = "ConfigurationError" ->
                   /\ selected' = selected
                   /\ call' = Call("install", options, Undefined, Undefined,
                          Threw(Error("ConfigurationError",
                              "Both encryptionFunction and decryptionFunction must be provided",
                              <<>>)))
              [] chosen = "native" ->
                   /\ selected' = [kind |-> "native", options |-> options]
                   /\ call' = Call("install", options, Undefined, Undefined, Returned)
              [] chosen = "MissingDependency" ->
                   /\ selected' = selected
                   /\ call' = Call("install", options, Undefined, Undefined,
                          Threw(Error("MissingDependency", "No Aes module found", <<>>)))
         /\ UNCHANGED <<nativeAes, heap, mutations, key>>

\* export function install(options = {}).  The host global is an ordinary
\* writable object, so the guarded creation of crypto succeeds when crypto is
\* absent and is not attempted when it is present.
install(options) ==
    IF ~global.defined
    THEN /\ call' = Call("install", options, Undefined, Undefined,
                         Threw(Error("EnvironmentError", "global is not defined", <<>>)))
         /\ UNCHANGED <<global, nativeAes, subtle, heap, mutations, key, selected>>
    ELSE LET chosen == selection(options)
             withImportKey == [subtle EXCEPT !.importKey = NativeFunction("importKey")]
         IN
         /\ global' = [global EXCEPT !.crypto = TRUE, !.subtle = TRUE,
                           !.TextDecoder = IF @ = "absent" THEN "polyfill" ELSE @]
         /\ CASE chosen = "custom" ->
                   /\ subtle' = [withImportKey EXCEPT
                          !.encrypt = buildCustomEncryption(options.encryptionFunction),
                          !.decrypt = buildCustomDecryption(options.decryptionFunction)]
                   /\ selected' = [kind |-> "custom", options |-> options]
                   /\ call' = Call("install", options, Undefined, Undefined, Returned)
              [] chosen = "ConfigurationError" ->
                   /\ subtle' = withImportKey
                   /\ selected' = selected
                   /\ call' = Call("install", options, Undefined, Undefined,
                          Threw(Error("ConfigurationError",
                              "Both encryptionFunction and decryptionFunction must be provided",
                              <<>>)))
              [] chosen = "native" ->
                   /\ subtle' = [withImportKey EXCEPT
                          !.encrypt = NativeFunction("encrypt"),
                          !.decrypt = NativeFunction("decrypt")]
                   /\ selected' = [kind |-> "native", options |-> options]
                   /\ call' = Call("install", options, Undefined, Undefined, Returned)
              [] chosen = "MissingDependency" ->
                   /\ subtle' = withImportKey
                   /\ selected' = selected
                   /\ call' = Call("install", options, Undefined, Undefined,
                          Threw(Error("MissingDependency", "No Aes module found", <<>>)))
         /\ UNCHANGED <<nativeAes, heap, mutations, key>>

Install == \E options \in InstallOptions : install(options)

----------------------------------------------------------------------------
(* Calls of the installed surface *)

\* crypto.subtle.importKey(format, keyData, algorithm); the caller keeps the handle
ImportKey ==
    /\ subtle.importKey = NativeFunction("importKey")
    /\ \E format \in Formats, keyData \in KeyDataInputs, algorithm \in ImportAlgorithms :
          LET outcome == importKey(format, keyData, algorithm)
              args    == [format |-> format, keyData |-> keyData, algorithm |-> algorithm]
          IN  /\ call' = Call("importKey", args, subtle.importKey, Undefined, outcome)
              /\ key' = IF outcome.status = "resolved"
                        THEN [handle |-> outcome.value, source |-> keyData,
                              imported |-> logicalBytes(keyData)]
                        ELSE key
    /\ UNCHANGED <<global, nativeAes, subtle, heap, mutations, selected>>

\* the key arguments a caller can pass: the handle it holds, or something forged
KeyArguments == ForgedKeys \cup (IF key = Undefined THEN {} ELSE {key.handle})

\* what the call record remembers of the handle's import
importOf(k) == IF key # Undefined /\ k = key.handle THEN key ELSE Undefined

\* crypto.subtle.encrypt(algorithm, key, data)
Encrypt ==
    /\ subtle.encrypt \notin {Undefined, HostFunction}
    /\ \E algorithm \in CallAlgorithms, k \in KeyArguments, data \in DataInputs :
          call' = Call("encrypt", [algorithm |-> algorithm, key |-> k, data |-> data],
                       subtle.encrypt, importOf(k),
                       apply(subtle.encrypt, algorithm, k, data))
    /\ UNCHANGED <<global, nativeAes, subtle, heap, mutations, key, selected>>

\* crypto.subtle.decrypt(algorithm, key, data)
Decrypt ==
    /\ subtle.decrypt \notin {Undefined, HostFunction}
    /\ \E algorithm \in CallAlgorithms, k \in KeyArguments, data \in DataInputs :
          call' = Call("decrypt", [algorithm |-> algorithm, key |-> k, data |-> data],
                       subtle.decrypt, importOf(k),
                       apply(subtle.decrypt, algorithm, k, data))
    /\ UNCHANGED <<global, nativeAes, subtle, heap, mutations, key, selected>>

\* (await crypto.subtle.encrypt)(algorithm, key, data), likewise decrypt: a caller
\* that unwraps the promise a custom install left in the slot
CallUnwrapped ==
    /\ \E op \in {"encrypt", "decrypt"} :
          /\ subtle[op].kind = "promise"
          /\ \E algorithm \in UnwrappedAlgorithms, k \in KeyArguments, data \in DataInputs :
                call' = Call(op, [algorithm |-> algorithm, key |-> k, data |-> data],
                             subtle[op].value, importOf(k),
                             apply(subtle[op].value, algorithm, k, data))
    /\ UNCHANGED <<global, nativeAes, subtle, heap, mutations, key, selected>>

\* NativeModules.Aes.encrypt / decrypt settles; the awaiting call resumes
BackendSettle ==
    /\ call.status = "pending"
    /\ Len(call.backend) = 1
    /\ \E settlement \in BackendSettlements :
          LET outcome == resumeAfterBackend(call, settlement)
          IN  call' = [outcome EXCEPT !.settlement = settlement]
    /\ UNCHANGED <<global, nativeAes, subtle, heap, mutations, key, selected>>

\* the custom function's promise, which the wrapper returned as it is, settles
CustomSettle ==
    /\ call.status = "pending"
    /\ Len(call.custom) = 1
    /\ \E settlement \in CustomSettlements :
          call' = IF settlement.kind = "fulfilled"
                  THEN [call EXCEPT !.status = "resolved", !.value = settlement.value,
                                    !.settlement = settlement]
                  ELSE [call EXCEPT !.status = "rejected", !.error = settlement.reason,
                                    !.settlement = settlement]
    /\ UNCHANGED <<global, nativeAes, subtle, heap, mutations, key, selected>>

\* the buffers the caller writes into after it filled them
MutableBuffers == {"key16", "key24", "key32"}

\* the caller writes a byte into one of its key buffers
MutateBuffer ==
    /\ mutations < MaxMutations
    /\ \E b \in MutableBuffers :
          heap' = [heap EXCEPT ![b][Len(heap[b])] = (@ + 128) % 256]
    /\ mutations' = mutations + 1
    /\ UNCHANGED <<global, nativeAes, subtle, key, selected, call>>

Next ==
    \/ Install
    \/ ImportKey
    \/ Encrypt
    \/ Decrypt
    \/ CallUnwrapped
    \/ BackendSettle
    \/ CustomSettle
    \/ MutateBuffer

Spec == Init /\ [][Next]_vars

TypeOK ==
    /\ nativeAes \in BOOLEAN
    /\ mutations \in 0..MaxMutations
    /\ call.status \in {"none", "pending", "resolved", "rejected", "threw", "returned"}

----------------------------------------------------------------------------
(* Vocabulary of the properties *)

\* the most recent call is crypto.subtle.encrypt(...) or crypto.subtle.decrypt(...)
IsCryptCall == call.op \in {"encrypt", "decrypt"}

\* ... made through the slot while the native strategy was installed
IsNativeCall == IsCryptCall /\ call.target.kind = "function" /\ call.target.impl = "native"

\* ... made through the slot as a custom install left it
IsCustomSlotCall == IsCryptCall /\ call.target.kind = "promise"

\* s contains t, letter case ignored
ContainsIgnoringCase(s, t) ==
    \E i \in 1..(Len(s) - Len(t) + 1) :
        \A j \in 1..Len(t) : toLowerChar(s[i + j - 1]) = toLowerChar(t[j])

\* the native backend (NativeModules.Aes.encrypt / decrypt) was not invoked
BackendNotInvoked == call.backend = <<>>

\* no custom function was invoked
CustomNotInvoked == call.custom = <<>>

\* two lowercase hex digits per byte
HexOfBytes(bytes) ==
    [i \in 1..(2 * Len(bytes)) |->
        IF i % 2 = 1 THEN HexDigits[(bytes[(i + 1) \div 2] \div 16) + 1]
                     ELSE HexDigits[(bytes[i \div 2] % 16) + 1]]

----------------------------------------------------------------------------
(* C1: after install({encryptionFunction: E, decryptionFunction: D}), a call
   encrypt(a, k, d) through the slot with a handle k of importKey invokes E
   exactly once with (a, the raw key bytes of k, d) and yields E's result,
   decrypt likewise with D, and the native backend is not invoked. *)
C1_CustomDelegation ==
    (IsCustomSlotCall /\ isPolyfillCryptoKey(call.args.key)) =>
        /\ Len(call.custom) = 1
        /\ call.custom[1].fn = (IF call.op = "encrypt"
                                THEN selected.options.encryptionFunction
                                ELSE selected.options.decryptionFunction)
        /\ call.custom[1].algorithm = call.args.algorithm
        /\ call.custom[1].key = call.args.key.keyData
        /\ call.custom[1].data = call.args.data
        /\ BackendNotInvoked
        /\ call.status \in {"pending", "resolved", "rejected"}

----------------------------------------------------------------------------
(* C2: with the host global available, install(options) throws synchronously
   if and only if exactly one of encryptionFunction / decryptionFunction is
   supplied, or neither is supplied and NativeModules.Aes is unavailable; in
   every other case it returns normally. *)
C2_InstallThrowsIff ==
    (call.op = "install" /\ global.defined) =>
        LET e == call.args.encryptionFunction # Undefined
            d == call.args.decryptionFunction # Undefined
            misconfigured == (e /\ ~d) \/ (d /\ ~e) \/ (~e /\ ~d /\ ~nativeAes)
        IN  /\ call.status \in {"threw", "returned"}
            /\ (call.status = "threw") <=> misconfigured
            /\ (call.status = "threw") =>
                   call.error.kind = (IF e \/ d THEN "ConfigurationError"
                                               ELSE "MissingDependency")

\* an install with exactly one custom function has thrown
C2_Witness ==
    /\ call.op = "install"
    /\ global.defined
    /\ call.args.encryptionFunction # Undefined
    /\ call.args.decryptionFunction = Undefined
    /\ call.status = "threw"

----------------------------------------------------------------------------
(* C3: under the native strategy, encrypt / decrypt with an AES-CBC descriptor
   and a valid key handle reject with MissingIV whenever algorithm.iv is absent
   or is an empty buffer or view, without invoking the backend; the backend is
   reached only when iv is present and has at least one byte. *)
C3_EmptyOrMissingIvRejected ==
    (/\ IsNativeCall
     /\ call.args.algorithm.kind = "object"
     /\ ContainsIgnoringCase(call.args.algorithm.name, aes_cbc)
     /\ isPolyfillCryptoKey(call.args.key)) =>
        LET iv == call.args.algorithm.iv
            unusable == IF iv = Undefined THEN TRUE ELSE Len(logicalBytes(iv)) = 0
        IN  /\ unusable => /\ call.status = "rejected"
                           /\ call.error.kind = "MissingIV"
                           /\ BackendNotInvoked
            /\ ~BackendNotInvoked => ~unusable

----------------------------------------------------------------------------
(* C4: for key data of logical byte length n in {16, 24, 32} given to importKey
   as a flat ArrayBuffer or as a typed view (also a view of a sub-range of a
   larger buffer), a native encrypt / decrypt with the handle passes to the
   backend the mode token aes-<8n>-cbc and a hex key of exactly 2n characters
   encoding those n bytes.  (Buffers not written to since the import.) *)
ModeTokenFor(n) ==
    CASE n = 16 -> <<"a","e","s","-","1","2","8","-","c","b","c">>
      [] n = 24 -> <<"a","e","s","-","1","9","2","-","c","b","c">>
      [] n = 32 -> <<"a","e","s","-","2","5","6","-","c","b","c">>
      [] OTHER  -> <<>>

C4_ModeAndHexFromLogicalKey ==
    (/\ IsNativeCall
     /\ call.imported # Undefined
     /\ ~BackendNotInvoked
     /\ mutations = 0
     /\ Len(call.imported.imported) \in {16, 24, 32}) =>
        LET n == Len(call.imported.imported)
        IN  /\ call.backend[1].aesMode = ModeTokenFor(n)
            /\ Len(call.backend[1].keyHex) = 2 * n
            /\ call.backend[1].keyHex = HexOfBytes(call.imported.imported)

----------------------------------------------------------------------------
(* C5: a key handle keeps the key bytes it was created with: after
   importKey(raw, buf, alg) -> k and later writes of the caller into buf, an
   encrypt / decrypt with k delivers the key bytes (hex key natively, raw key
   bytes to a custom function) and the mode token of buf as it was at the
   import.  (Stated for flat buffers.) *)
C5_HandleKeepsImportedBytes ==
    (/\ IsCryptCall
     /\ call.imported # Undefined
     /\ call.imported.source.kind = "ArrayBuffer") =>
        LET bytes == call.imported.imported
        IN  /\ (Len(call.backend) = 1) =>
                   /\ call.backend[1].keyHex = HexOfBytes(bytes)
                   /\ call.backend[1].aesMode = ModeTokenFor(Len(bytes))
            /\ (Len(call.custom) = 1) => call.custom[1].keyBytes = bytes

----------------------------------------------------------------------------
(* C6: encrypt / decrypt reject with InvalidKey for every key argument that
   importKey did not produce, under the native and under the custom strategy,
   and then neither the native backend nor a custom function is invoked.
   (Natively, for calls whose algorithm passes the two earlier checks.) *)
C6_ForgedKeyRejected ==
    (/\ IsNativeCall \/ IsCustomSlotCall
     /\ ~isPolyfillCryptoKey(call.args.key)
     /\ IsNativeCall => /\ call.args.algorithm.kind = "object"
                        /\ ContainsIgnoringCase(call.args.algorithm.name, aes_cbc)) =>
        /\ call.status = "rejected"
        /\ call.error.kind = "InvalidKey"
        /\ BackendNotInvoked
        /\ CustomNotInvoked

----------------------------------------------------------------------------
(* C7: install is idempotent and the last install wins: install() with the
   native primitive present never throws, and after any installs that
   returned, importKey is the polyfilled importKey and the encrypt / decrypt
   slots are callable functions of the strategy the most recent of them
   selected: the native functions, or the wrappers of that call's custom
   functions. *)
C7_LastInstallWins ==
    /\ (/\ call.op = "install" /\ global.defined /\ nativeAes
        /\ call.args.encryptionFunction = Undefined
        /\ call.args.decryptionFunction = Undefined) =>
           /\ call.status = "returned"
           /\ subtle = [importKey |-> NativeFunction("importKey"),
                        encrypt |-> NativeFunction("encrypt"),
                        decrypt |-> NativeFunction("decrypt")]
    /\ (selected # Undefined) =>
           /\ subtle.importKey = NativeFunction("importKey")
           /\ (selected.kind = "native") =>
                  /\ subtle.encrypt = NativeFunction("encrypt")
                  /\ subtle.decrypt = NativeFunction("decrypt")
           /\ (selected.kind = "custom") =>
                  /\ subtle.encrypt = CustomFunction(selected.options.encryptionFunction)
                  /\ subtle.decrypt = CustomFunction(selected.options.decryptionFunction)

----------------------------------------------------------------------------
(* C8: importKey rejects (a rejected promise, never a handle) with
   UnsupportedFormat naming the format whenever format is not 'raw', whatever
   the algorithm; with format 'raw' it rejects with UnsupportedAlgorithm
   exactly when the algorithm name does not contain 'aes' (case ignored), and
   otherwise resolves to a key handle. *)
C8_ImportKeyValidation ==
    (call.op = "importKey") =>
        LET format == call.args.format
            name   == call.args.algorithm.name
        IN  /\ call.status \in {"rejected", "resolved"}
            /\ (format # raw) =>
                   /\ call.status = "rejected"
                   /\ call.error.kind = "UnsupportedFormat"
                   /\ call.error.detail = format
            /\ (format = raw /\ ~ContainsIgnoringCase(name, aes)) =>
                   /\ call.status = "rejected"
                   /\ call.error.kind = "UnsupportedAlgorithm"
            /\ (format = raw /\ ContainsIgnoringCase(name, aes)) =>
                   /\ call.status = "resolved"
                   /\ call.value.kind = "PolyfillCryptoKey"
                   /\ key.handle = call.value

\* format and algorithm both invalid: the format error is the one reported
C8_Witness ==
    /\ call.op = "importKey"
    /\ call.args.format = pkcs8
    /\ call.args.algorithm.name = RSA
    /\ call.status = "rejected"
    /\ call.error.kind = "UnsupportedFormat"

----------------------------------------------------------------------------
(* C9: natively, encrypt / decrypt validate in the order (1) bare-string
   algorithm -> InvalidAlgorithmShape, (2) name without 'aes-cbc' ->
   UnsupportedAlgorithm, (3) key not a handle -> InvalidKey, (4) iv missing ->
   MissingIV; a call violating several reports the first, and a call violating
   any is a rejected promise with the backend invoked zero times. *)
C9_ValidationOrder ==
    IsNativeCall =>
        LET algorithm == call.args.algorithm
            v1 == algorithm.kind = "string"
            v2 == ~ContainsIgnoringCase(algorithm.name, aes_cbc)
            v3 == ~isPolyfillCryptoKey(call.args.key)
            v4 == IF v1 THEN TRUE ELSE algorithm.iv = Undefined
            expected == IF v1 THEN "InvalidAlgorithmShape"
                        ELSE IF v2 THEN "UnsupportedAlgorithm"
                        ELSE IF v3 THEN "InvalidKey"
                        ELSE "MissingIV"
        IN  (v1 \/ v2 \/ v3 \/ v4) =>
                /\ call.status = "rejected"
                /\ call.error.kind = expected
                /\ BackendNotInvoked

\* a call violating checks 2, 3 and 4 at once reports check 2
C9_Witness ==
    /\ IsNativeCall
    /\ call.args.algorithm = ObjectAlgorithm(AES_GCM, Undefined)
    /\ ~isPolyfillCryptoKey(call.args.key)
    /\ call.status = "rejected"
    /\ call.error.kind = "UnsupportedAlgorithm"

----------------------------------------------------------------------------
(* C10: a native encrypt / decrypt that passes validation invokes the backend
   exactly once, stays pending until that invocation settles, then rejects
   with the backend's failure value unchanged if the backend failed, and
   resolves with the bytes decoded from the backend's base64 if it succeeded. *)
C10_SettlesWithBackend ==
    (/\ IsNativeCall
     /\ call.args.algorithm.kind = "object"
     /\ ContainsIgnoringCase(call.args.algorithm.name, aes_cbc)
     /\ isPolyfillCryptoKey(call.args.key)
     /\ call.args.algorithm.iv # Undefined) =>
        /\ Len(call.backend) = 1
        /\ call.backend[1].fn = (IF call.op = "encrypt" THEN "Aes.encrypt" ELSE "Aes.decrypt")
        /\ (call.status = "pending") <=> (call.settlement = Undefined)
        /\ call.status \in {"pending", "resolved", "rejected"}
        /\ (call.settlement # Undefined) =>
               IF call.settlement.kind = "rejected"
               THEN /\ call.status = "rejected"
                    /\ call.error = call.settlement.reason
                    /\ call.value = Undefined
               ELSE /\ call.status = "resolved"
                    /\ call.error = NoError
                    /\ call.value.kind = "ArrayBuffer"
                    /\ btoa(call.value.bytes) = call.settlement.value

\* the backend answered "SGk=" and the call resolved with the bytes 72, 105
C10_Witness ==
    /\ IsNativeCall
    /\ call.settlement # Undefined
    /\ call.settlement.kind = "fulfilled"
    /\ call.settlement.value = <<"S","G","k","=">>
    /\ call.status = "resolved"
    /\ call.value.bytes = <<72, 105>>

----------------------------------------------------------------------------
(* C11: an install call that raises a configuration error (exactly one custom
   function, or no custom function and no native primitive) leaves the encrypt
   and decrypt slots of crypto.subtle exactly as they were before the call
   (the previous successful install's strategy, or still absent), although the
   same call has created crypto / subtle if absent and bound importKey (and
   TextDecoder if absent) before raising; and no step replaces a TextDecoder
   global that already exists. *)
C11_FailedInstallKeepsSlots ==
    [][ /\ (/\ call'.op = "install"
            /\ call'.status = "threw"
            /\ call'.error.kind \in {"ConfigurationError", "MissingDependency"}) =>
               /\ subtle'.encrypt = subtle.encrypt
               /\ subtle'.decrypt = subtle.decrypt
               /\ subtle'.importKey = NativeFunction("importKey")
               /\ global'.crypto /\ global'.subtle
               /\ global'.TextDecoder # "absent"
               /\ selected' = selected
        /\ (global.TextDecoder # "absent") => global'.TextDecoder = global.TextDecoder
      ]_vars

\* after a native install, an install with one function alone has thrown: the
\* slots are still the native functions and the host's TextDecoder is in place
C11_Witness ==
    /\ call.op = "install"
    /\ call.status = "threw"
    /\ call.error.kind = "ConfigurationError"
    /\ selected # Undefined
    /\ selected.kind = "native"
    /\ subtle.encrypt = NativeFunction("encrypt")
    /\ subtle.decrypt = NativeFunction("decrypt")
    /\ global.TextDecoder = "host"

====
